---- MODULE Spec2Model ----
(***************************************************************************)
(* Model of the ICMP echo probe engine: src/src/main.rs (PingStats and     *)
(* start_pings) and src/src/ping.rs (packet builders, channel set-up,      *)
(* receive iterator, send_ping).                                           *)
(***************************************************************************)
EXTENDS Integers, Sequences, FiniteSets, TLC

VARIABLES
  addr,             \* family of the destination address: "V4" or "V6"
  ttl,              \* ttl argument of start_pings
  timeout,          \* timeout argument of start_pings, in seconds
  packets_to_send,  \* Option<u64>
  pc,               \* position of start_pings
  error,            \* the io::Error start_pings returned, or NoError
  protocol,         \* protocol the transport channel was opened with
  sender_ttl,       \* ttl set on the sender, if any
  packets,          \* variant of the PacketIter: "V4" or "V6"
  data,             \* the packet buffer, a sequence of bytes
  builder,          \* the builder send_ping dispatched to last
  stats,            \* PingStats
  now,              \* Instant::now(), in milliseconds
  time_sent,        \* the local time_sent
  send_at,          \* Instant::now() when send_ping was called last
  success,          \* the local success
  answer,           \* what the transport iterator answered to the last wait
  send_calls,       \* number of calls of send_ping so far
  wait_calls,       \* number of calls of next_with_timeout so far
  sleeps,           \* number of calls of sleep so far
  cycles,           \* the completed cycles: outcome and rtt of each
  report,           \* the line printed last
  prints,           \* number of lines printed so far
  signalled,        \* an interrupt signal was delivered to the process
  fn_in,            \* input of the pure function under check
  fn_out            \* its result

vars ==
  << addr, ttl, timeout, packets_to_send, pc, error, protocol, sender_ttl,
     packets, data, builder, stats, now, time_sent, send_at, success, answer,
     send_calls, wait_calls, sleeps, cycles, report, prints, signalled,
     fn_in, fn_out >>

-----------------------------------------------------------------------------
(* Bounds of the model *)

\* largest packet count given with --count
MaxCount ==
  3

\* cycles explored of a session started without --count
MaxCycles ==
  3

\* time a transmission takes when it does not return at once, in milliseconds
MaxSendMs ==
  1

\* bytes of the buffer a caller of the builders changes before building
MaxPokes ==
  2

\* the first bytes of a buffer, and its last, are the ones changed
MaxPokeAt ==
  8

\* lengths of the buffers handed to the builders, besides PACKET_DATA_SIZE
MaxBufLen ==
  9

\* largest total_rtt and largest counter of the PingStats handed to avg_rtt
MaxTotalRtt ==
  24

MaxCounter ==
  5

-----------------------------------------------------------------------------
(* Program constants *)

PACKET_DATA_SIZE ==
  64

DEFAULT_TTL ==
  64

DEFAULT_WAIT ==
  2

SLEEP_MS ==
  500

\* IcmpTypes::EchoRequest
ICMP_ECHO_REQUEST ==
  8

\* Icmpv6Types::EchoRequest
ICMPV6_ECHO_REQUEST ==
  128

\* MutableEchoRequestPacket::minimum_packet_size()
ECHO_REQUEST_MIN_SIZE ==
  8

\* MutableIcmpv6Packet::minimum_packet_size()
ICMPV6_MIN_SIZE ==
  4

\* the word checksum() is told to skip
SKIPWORD ==
  1

None ==
  "None"

NoError ==
  "NoError"

\* Option: NoneOpt or Some(v)
NoneOpt ==
  << >>

Some(v) ==
  << v >>

\* marks a result the arithmetic of the program does not deliver: an integer
\* division by zero or a subtraction below zero (a panic), a float NaN
Undefined ==
  0 - 1

Families ==
  {"V4", "V6"}

\* values of --ttl explored
Ttls ==
  {1, DEFAULT_TTL}

\* values of --wait explored, in seconds
Timeouts ==
  {1, DEFAULT_WAIT}

\* delays of a reply that arrives, in milliseconds
ReplyDelays ==
  {10, 30}

\* byte values written into a buffer before it is built
ByteVals ==
  {0, 1, 128, 255}

-----------------------------------------------------------------------------
(* PingStats *)

\* PingStats::default()
PingStatsDefault ==
  [num_sent |-> 0, num_received |-> 0, total_rtt |-> 0]

\* integer division of Rust: a zero divisor panics
Div(a, b) ==
  IF b = 0 THEN Undefined ELSE a \div b

\* avg_rtt without its test of num_received
avg_rtt_unguarded(self) ==
  Div(self.total_rtt, self.num_received)

avg_rtt(self) ==
  IF self.num_received # 0
    THEN Div(self.total_rtt, self.num_received)
    ELSE 0

\* u64 subtraction; a result below zero is marked
total_lost(self) ==
  IF self.num_sent >= self.num_received
    THEN self.num_sent - self.num_received
    ELSE Undefined

\* f64 division, the ratio kept in hundredths of a percent; a zero num_sent
\* gives NaN or an infinity, marked
total_percent_loss(self) ==
  IF self.num_sent = 0
    THEN Undefined
    ELSE 10000 - ((self.num_received * 10000) \div self.num_sent)

print_stats_for_rtt(self, rtt) ==
  [kind |-> "received", rtt |-> rtt, avg |-> avg_rtt(self),
   lost |-> total_lost(self), sent |-> self.num_sent,
   loss |-> total_percent_loss(self)]

print_stats_for_timeout(self) ==
  [kind |-> "timeout", avg |-> avg_rtt(self),
   lost |-> total_lost(self), sent |-> self.num_sent,
   loss |-> total_percent_loss(self)]

-----------------------------------------------------------------------------
(* Packet builders (ping.rs) *)

\* the 16-bit big-endian word i (from 0) of d
Word(d, i) ==
  d[2 * i + 1] * 256 + d[2 * i + 2]

RECURSIVE SumWordsFrom(_, _, _)
\* sum of the full words i, i+1, ... of d, the word skipword left out
SumWordsFrom(d, skipword, i) ==
  IF 2 * i + 2 > Len(d)
    THEN 0
    ELSE (IF i # skipword THEN Word(d, i) ELSE 0)
         + SumWordsFrom(d, skipword, i + 1)

\* pnet::packet::util: the sum of the big-endian words of d; the last byte of
\* an odd-length d is the high byte of one more word
sum_be_words(d, skipword) ==
  SumWordsFrom(d, skipword, 0)
  + (IF (Len(d) \div 2) # skipword /\ Len(d) % 2 = 1
       THEN d[Len(d)] * 256
       ELSE 0)

RECURSIVE FoldCarries(_)
\* while sum >> 16 != 0 { sum = (sum >> 16) + (sum & 0xFFFF) }
FoldCarries(sum) ==
  IF sum \div 65536 # 0
    THEN FoldCarries((sum \div 65536) + (sum % 65536))
    ELSE sum

\* !sum as u16
finalize_checksum(sum) ==
  65535 - FoldCarries(sum)

\* pnet::packet::util::checksum
checksum(d, skipword) ==
  IF Len(d) = 0 THEN 0 ELSE finalize_checksum(sum_be_words(d, skipword))

\* set_checksum: bytes 2 and 3 of the packet, big-endian
set_checksum(d, cs) ==
  [d EXCEPT ![3] = cs \div 256, ![4] = cs % 256]

\* set_identifier: bytes 4 and 5
set_identifier(d, v) ==
  [d EXCEPT ![5] = v \div 256, ![6] = v % 256]

\* set_sequence_number: bytes 6 and 7
set_sequence_number(d, v) ==
  [d EXCEPT ![7] = v \div 256, ![8] = v % 256]

\* set_icmp_type, set_icmpv6_type: byte 0
set_type(d, t) ==
  [d EXCEPT ![1] = t]

\* make_icmp_ping_request with the type written before the length is tested
make_icmp_type_before_test(d) ==
  IF Len(d) < ECHO_REQUEST_MIN_SIZE
    THEN [panic |-> TRUE,
          data |-> IF Len(d) >= 1 THEN set_type(d, ICMP_ECHO_REQUEST) ELSE d]
    ELSE LET ident == set_identifier(set_type(d, ICMP_ECHO_REQUEST), 0)
             zeroed == set_checksum(set_sequence_number(ident, 0), 0)
         IN [panic |-> FALSE,
             data |-> set_checksum(zeroed, checksum(zeroed, SKIPWORD))]

\* make_icmp_ping_request with a sequence number one above the buffer's
make_icmp_next_sequence(d) ==
  IF Len(d) < ECHO_REQUEST_MIN_SIZE
    THEN [panic |-> TRUE, data |-> d]
    ELSE LET ident == set_identifier(set_type(d, ICMP_ECHO_REQUEST), 0)
             seqno == set_sequence_number(ident, (Word(d, 3) + 1) % 65536)
             zeroed == set_checksum(seqno, 0)
         IN [panic |-> FALSE,
             data |-> set_checksum(zeroed, checksum(zeroed, SKIPWORD))]

\* The buffer as make_icmp_ping_request leaves it; panic when
\* MutableEchoRequestPacket::new(data) is None and expect() panics.
make_icmp_ping_request(d) ==
  IF Len(d) < ECHO_REQUEST_MIN_SIZE
    THEN [panic |-> TRUE, data |-> d]
    ELSE LET typed == set_type(d, ICMP_ECHO_REQUEST)
             ident == set_identifier(typed, 0)
             seqno == set_sequence_number(ident, 0)
             zeroed == set_checksum(seqno, 0)
             cs == checksum(zeroed, SKIPWORD)
         IN [panic |-> FALSE, data |-> set_checksum(zeroed, cs)]

\* make_icmpv6_ping_request with the checksum computed before the type is set
make_icmpv6_checksum_first(d) ==
  IF Len(d) < ICMPV6_MIN_SIZE
    THEN [panic |-> TRUE, data |-> d]
    ELSE LET zeroed == set_checksum(d, 0)
             cs == checksum(zeroed, SKIPWORD)
             typed == set_type(zeroed, ICMPV6_ECHO_REQUEST)
         IN [panic |-> FALSE, data |-> set_checksum(typed, cs)]

\* The buffer as make_icmpv6_ping_request leaves it; panic as above.
make_icmpv6_ping_request(d) ==
  IF Len(d) < ICMPV6_MIN_SIZE
    THEN [panic |-> TRUE, data |-> d]
    ELSE LET typed == set_type(d, ICMPV6_ECHO_REQUEST)
             zeroed == set_checksum(typed, 0)
             cs == checksum(zeroed, SKIPWORD)
         IN [panic |-> FALSE, data |-> set_checksum(zeroed, cs)]

\* let mut data = [0; PACKET_DATA_SIZE]
ZeroData ==
  [i \in 1..PACKET_DATA_SIZE |-> 0]

-----------------------------------------------------------------------------
(* Channel set-up, receive iterator and send_ping (ping.rs) *)

\* what the operating system answers to transport_channel and set_ttl
OsAnswers ==
  {"ok", "open_fails", "set_ttl_fails"}

\* create_channels(addr, ttl): the channel opened, or the error returned
create_channels(a, t, os) ==
  IF a = "V4"
    THEN IF os = "open_fails" THEN [ok |-> FALSE, err |-> "ChannelOpenError"]
         ELSE IF os = "set_ttl_fails" THEN [ok |-> FALSE, err |-> "SetTtlError"]
         ELSE [ok |-> TRUE, protocol |-> "Ipv4(Icmp)", ttl |-> Some(t)]
    ELSE IF os = "open_fails" THEN [ok |-> FALSE, err |-> "ChannelOpenError"]
         ELSE [ok |-> TRUE, protocol |-> "Ipv6(Icmpv6)", ttl |-> NoneOpt]

\* packet_iter with one arm for both families
packet_iter_always_v4(a) ==
  "V4"

\* packet_iter(addr, receiver): the variant of PacketIter
packet_iter(a) ==
  IF a = "V4" THEN "V4" ELSE "V6"

\* the builder send_ping dispatches to
send_ping_builder(a) ==
  IF a = "V4" THEN "make_icmp_ping_request" ELSE "make_icmpv6_ping_request"

\* the buffer as send_ping leaves it
send_ping_data(a, d) ==
  IF send_ping_builder(a) = "make_icmp_ping_request"
    THEN make_icmp_ping_request(d)
    ELSE make_icmpv6_ping_request(d)

\* what the transport iterator's next_with_timeout answers: a packet after a
\* delay, nothing within the timeout, or a transport fault
IterAnswers(t) ==
  [kind : {"Some"}, ms : ReplyDelays]
    \cup {[kind |-> "None", ms |-> t * 1000], [kind |-> "Err", ms |-> 0]}

\* next_with_timeout with the timeout turned into an error
next_with_timeout_timeout_is_error(variant, r) ==
  IF r.kind = "Some"
    THEN [ok |-> TRUE, value |-> TRUE]
    ELSE [ok |-> FALSE, err |-> "IoError"]

\* PacketIter::next_with_timeout: iter.next_with_timeout(t).map(|v| v.is_some())
next_with_timeout(variant, r) ==
  IF variant = "V4"
    THEN IF r.kind = "Err" THEN [ok |-> FALSE, err |-> "IoError"]
         ELSE [ok |-> TRUE, value |-> (r.kind = "Some")]
    ELSE IF r.kind = "Err" THEN [ok |-> FALSE, err |-> "IoError"]
         ELSE [ok |-> TRUE, value |-> (r.kind = "Some")]

-----------------------------------------------------------------------------
(* start_pings (main.rs) *)

\* the arguments of start_pings
config ==
  << addr, ttl, timeout, packets_to_send >>

\* the channel and the iterator over its receiver
channel ==
  << protocol, sender_ttl, packets >>

\* the inputs and the result of a pure function checked on its own
fnvars ==
  << fn_in, fn_out >>

\* values of --count explored
Counts ==
  {NoneOpt} \cup {Some(c) : c \in 0..MaxCount}

\* cycles of a session the model follows: MaxCycles without --count, and one
\* more than the largest count with it
cycle_cap(c) ==
  IF c = NoneOpt THEN MaxCycles ELSE MaxCount + 1

\* the state of a session before start_pings runs
SessionIdle ==
  /\ error = NoError
  /\ protocol = None
  /\ sender_ttl = NoneOpt
  /\ packets = None
  /\ builder = None
  /\ now = 0
  /\ time_sent = 0
  /\ send_at = 0
  /\ success = FALSE
  /\ answer = [kind |-> "none", ms |-> 0]
  /\ send_calls = 0
  /\ wait_calls = 0
  /\ sleeps = 0
  /\ cycles = << >>
  /\ report = [kind |-> "none"]
  /\ prints = 0
  /\ signalled = FALSE

Init ==
  /\ addr \in Families
  /\ ttl \in Ttls
  /\ timeout \in Timeouts
  /\ packets_to_send \in Counts
  /\ pc = "create"
  /\ SessionIdle
  /\ data = << >>
  /\ stats = PingStatsDefault
  /\ fn_in = [op |-> None]
  /\ fn_out = << >>

\* lines 160-164: open the channel, make the iterator, the buffer, the stats
Setup ==
  /\ pc = "create"
  /\ \E os \in OsAnswers :
       LET ch == create_channels(addr, ttl, os)
       IN IF ch.ok
            THEN /\ protocol' = ch.protocol
                 /\ sender_ttl' = ch.ttl
                 /\ packets' = packet_iter(addr)
                 /\ data' = ZeroData
                 /\ stats' = PingStatsDefault
                 /\ pc' = "check"
                 /\ error' = error
            ELSE /\ pc' = "failed"
                 /\ error' = ch.err
                 /\ UNCHANGED << channel, data, stats >>
  /\ UNCHANGED << send_at, prints,
                  config, builder, now, time_sent, success, answer,
                  send_calls, wait_calls, sleeps, cycles, report, signalled,
                  fnvars >>

\* the stop condition with > for >=
stop_condition_off_by_one(c, st) ==
  IF c = NoneOpt THEN FALSE ELSE st.num_sent > c[1]

\* the stop condition with unwrap_or(true)
stop_condition_default_true(c, st) ==
  IF c = NoneOpt THEN TRUE ELSE st.num_sent >= c[1]

\* the stop condition on the replies received instead of the probes sent
stop_condition_counts_received(c, st) ==
  IF c = NoneOpt THEN FALSE ELSE st.num_received >= c[1]

\* packets_to_send.map(|c| stats.num_sent >= c).unwrap_or(false)
stop_condition(c, st) ==
  IF c = NoneOpt THEN FALSE ELSE st.num_sent >= c[1]

\* lines 167-169: the head of the loop
LoopCheck ==
  /\ pc = "check"
  /\ stop_condition(packets_to_send, stats)
       \/ stats.num_sent < cycle_cap(packets_to_send)
  /\ pc' = IF stop_condition(packets_to_send, stats) THEN "done" ELSE "send"
  /\ UNCHANGED << send_at, prints,
                  config, error, channel, data, builder, stats, now,
                  time_sent, success, answer, send_calls, wait_calls, sleeps,
                  cycles, report, signalled, fnvars >>

\* line 171 without the ?: the error of send_ping is dropped
after_send_error_dropped(io) ==
  [pc |-> "stamp", error |-> IF io = "ok" THEN NoError ELSE "SendError"]

\* the ? of line 171: where start_pings goes on after send_ping returned
after_send(io) ==
  IF io = "ok"
    THEN [pc |-> "stamp", error |-> NoError]
    ELSE [pc |-> "failed", error |-> "SendError"]

\* line 171: send_ping(addr, &mut data, &mut sender)?
SendPing ==
  /\ pc = "send"
  /\ \E io \in {"ok", "err"}, ms \in {0, MaxSendMs} :
       LET built == send_ping_data(addr, data)
       IN /\ builder' = send_ping_builder(addr)
          /\ send_calls' = send_calls + 1
          /\ send_at' = now
          /\ IF built.panic
               THEN /\ pc' = "panicked"
                    /\ UNCHANGED << data, now, error >>
               ELSE /\ data' = built.data
                    /\ now' = now + ms
                    /\ pc' = after_send(io).pc
                    /\ error' = after_send(io).error
  /\ UNCHANGED << prints,
                  config, channel, stats, time_sent, success, answer,
                  wait_calls, sleeps, cycles, report, signalled, fnvars >>

\* lines 173-174 with the time taken before send_ping was called
Stamp_before_send ==
  /\ pc = "stamp"
  /\ time_sent' = send_at
  /\ stats' = [stats EXCEPT !.num_sent = @ + 1]
  /\ pc' = "wait"
  /\ UNCHANGED << send_at, prints, config, error, channel, data, builder, now,
                  success, answer, send_calls, wait_calls, sleeps, cycles,
                  report, signalled, fnvars >>

\* lines 173-174 without the count of the probe
Stamp_no_count ==
  /\ pc = "stamp"
  /\ time_sent' = now
  /\ pc' = "wait"
  /\ UNCHANGED << send_at, prints, config, error, channel, data, builder, now,
                  stats, success, answer, send_calls, wait_calls, sleeps,
                  cycles, report, signalled, fnvars >>

\* lines 173-174: time_sent = Instant::now(); stats.num_sent += 1
Stamp ==
  /\ pc = "stamp"
  /\ time_sent' = now
  /\ stats' = [stats EXCEPT !.num_sent = @ + 1]
  /\ pc' = "wait"
  /\ UNCHANGED << send_at, prints,
                  config, error, channel, data, builder, now, success,
                  answer, send_calls, wait_calls, sleeps, cycles, report,
                  signalled, fnvars >>

\* line 176: packets.next_with_timeout(Duration::from_secs(timeout))?
Wait ==
  /\ pc = "wait"
  /\ \E r \in IterAnswers(timeout) :
       LET res == next_with_timeout(packets, r)
       IN /\ answer' = r
          /\ now' = now + r.ms
          /\ wait_calls' = wait_calls + 1
          /\ IF res.ok
               THEN /\ success' = res.value
                    /\ pc' = "record"
                    /\ error' = error
               ELSE /\ success' = success
                    /\ pc' = "failed"
                    /\ error' = res.err
  /\ UNCHANGED << send_at, prints,
                  config, channel, data, builder, stats, time_sent,
                  send_calls, sleeps, cycles, report, signalled, fnvars >>

\* the update of lines 180-181 done for a timeout too
record_stats_every_cycle(st, ok, rtt) ==
  [st EXCEPT !.total_rtt = @ + rtt, !.num_received = @ + 1]

\* line 180 with = for +=
record_stats_rtt_assigned(st, ok, rtt) ==
  IF ok
    THEN [st EXCEPT !.total_rtt = rtt, !.num_received = @ + 1]
    ELSE st

\* the stats after lines 179-185
record_stats(st, ok, rtt) ==
  IF ok
    THEN [st EXCEPT !.total_rtt = @ + rtt, !.num_received = @ + 1]
    ELSE st

\* lines 177-185 with the line printed before the stats are updated
Record_print_first ==
  /\ pc = "record"
  /\ LET rtt == now - time_sent
     IN /\ report' = IF success
                       THEN print_stats_for_rtt(stats, rtt)
                       ELSE print_stats_for_timeout(stats)
        /\ stats' = record_stats(stats, success, rtt)
        /\ cycles' = Append(cycles, [received |-> success, rtt |-> rtt])
  /\ prints' = prints + 1
  /\ pc' = "sleep"
  /\ UNCHANGED << send_at, config, error, channel, data, builder, now,
                  time_sent, success, answer, send_calls, wait_calls, sleeps,
                  signalled, fnvars >>

\* lines 177-185: rtt, the update of the stats, the printed line
Record ==
  /\ pc = "record"
  /\ LET rtt == now - time_sent
         st == record_stats(stats, success, rtt)
     IN /\ stats' = st
        /\ report' = IF success
                       THEN print_stats_for_rtt(st, rtt)
                       ELSE print_stats_for_timeout(st)
        /\ cycles' = Append(cycles, [received |-> success, rtt |-> rtt])
  /\ prints' = prints + 1
  /\ pc' = "sleep"
  /\ UNCHANGED << send_at,
                  config, error, channel, data, builder, now, time_sent,
                  success, answer, send_calls, wait_calls, sleeps, signalled,
                  fnvars >>

\* line 187 done only when the stop condition does not hold
Sleep_unless_stopping ==
  /\ pc = "sleep"
  /\ IF stop_condition(packets_to_send, stats)
       THEN UNCHANGED << now, sleeps >>
       ELSE now' = now + SLEEP_MS /\ sleeps' = sleeps + 1
  /\ pc' = "check"
  /\ UNCHANGED << send_at, prints, config, error, channel, data, builder,
                  stats, time_sent, success, answer, send_calls, wait_calls,
                  cycles, report, signalled, fnvars >>

\* line 187: sleep(Duration::from_millis(500))
Sleep ==
  /\ pc = "sleep"
  /\ now' = now + SLEEP_MS
  /\ sleeps' = sleeps + 1
  /\ pc' = "check"
  /\ UNCHANGED << send_at, prints,
                  config, error, channel, data, builder, stats, time_sent,
                  success, answer, send_calls, wait_calls, cycles, report,
                  signalled, fnvars >>

\* positions in which start_pings is running
Running ==
  {"create", "check", "send", "stamp", "wait", "record", "sleep"}

\* a handler that only notes the signal: the process goes on where it is
interrupted_goes_on(at) ==
  at

\* Where the process is after an interrupt signal reached it at position at:
\* main installs no handler and start_pings polls no flag, so the signal's
\* default disposition ends the process wherever it is.
interrupted(at) ==
  "killed"

\* An interrupt signal is delivered to the process.
Interrupt ==
  /\ pc \in Running
  /\ ~signalled
  /\ signalled' = TRUE
  /\ pc' = interrupted(pc)
  /\ UNCHANGED << send_at, prints,
                  config, error, channel, data, builder, stats, now,
                  time_sent, success, answer, send_calls, wait_calls, sleeps,
                  cycles, report, fnvars >>

\* the steps of the program itself
Step ==
  \/ Setup
  \/ LoopCheck
  \/ SendPing
  \/ Stamp
  \/ Wait
  \/ Record
  \/ Sleep

Next ==
  \/ Step
  \/ Interrupt

Spec ==
  Init /\ [][Next]_vars

\* the sessions followed to their end: default ttl and timeout
LiveInit ==
  /\ Init
  /\ ttl = DEFAULT_TTL
  /\ timeout = DEFAULT_WAIT

\* A session no signal is delivered to.  A step of the program that is
\* enabled is taken in the end: the one thread runs, and a send, a wait and a
\* sleep return.
LiveSpec ==
  LiveInit /\ [][Step]_vars /\ WF_vars(Step)

-----------------------------------------------------------------------------
(* PingStats::avg_rtt on its own: any PingStats, then one call *)

\* no session runs: the arguments of start_pings are the defaults
NoSession ==
  /\ addr = "V4"
  /\ ttl = DEFAULT_TTL
  /\ timeout = DEFAULT_WAIT
  /\ packets_to_send = NoneOpt
  /\ pc = "fn"
  /\ SessionIdle

AvgInit ==
  /\ NoSession
  /\ data = << >>
  /\ stats \in [num_sent : 0..MaxCounter, num_received : 0..MaxCounter,
                total_rtt : 0..MaxTotalRtt]
  /\ fn_in = [op |-> "avg_rtt"]
  /\ fn_out = << >>

\* stats.avg_rtt()
CallAvgRtt ==
  /\ fn_in.op = "avg_rtt"
  /\ fn_out = << >>
  /\ fn_out' = << avg_rtt(stats) >>
  /\ UNCHANGED << send_at, prints,
                  config, pc, error, channel, data, builder, stats, now,
                  time_sent, success, answer, send_calls, wait_calls, sleeps,
                  cycles, report, signalled, fn_in >>

AvgNext ==
  CallAvgRtt

AvgSpec ==
  AvgInit /\ [][AvgNext]_vars

-----------------------------------------------------------------------------
(* The packet builders on their own: any buffer, then the builders *)

BufLens ==
  (0..MaxBufLen) \cup {PACKET_DATA_SIZE}

\* the bytes of d a caller changes
PokeAt(d) ==
  {i \in 1..Len(d) : i <= MaxPokeAt \/ i = Len(d)}

BuildInit ==
  /\ NoSession
  /\ stats = PingStatsDefault
  /\ \E n \in BufLens, b \in ByteVals : data = [i \in 1..n |-> b]
  /\ fn_in = [op |-> "build", pokes |-> 0, before |-> << >>]
  /\ fn_out = << >>

\* the caller writes a byte of the buffer
Poke ==
  /\ fn_in.op = "build"
  /\ fn_out = << >>
  /\ fn_in.pokes < MaxPokes
  /\ \E i \in PokeAt(data), b \in ByteVals :
       /\ data[i] # b
       /\ data' = [data EXCEPT ![i] = b]
  /\ fn_in' = [fn_in EXCEPT !.pokes = @ + 1]
  /\ UNCHANGED << send_at, prints,
                  config, pc, error, channel, builder, stats, now, time_sent,
                  success, answer, send_calls, wait_calls, sleeps, cycles,
                  report, signalled, fn_out >>

\* make_icmp_ping_request(&mut data)
BuildV4 ==
  /\ fn_in.op = "build"
  /\ LET r == make_icmp_ping_request(data)
     IN /\ data' = r.data
        /\ fn_out' = << [by |-> "make_icmp_ping_request", panic |-> r.panic] >>
  /\ fn_in' = [fn_in EXCEPT !.before = data]
  /\ UNCHANGED << send_at, prints,
                  config, pc, error, channel, builder, stats, now, time_sent,
                  success, answer, send_calls, wait_calls, sleeps, cycles,
                  report, signalled >>

\* make_icmpv6_ping_request(&mut data)
BuildV6 ==
  /\ fn_in.op = "build"
  /\ LET r == make_icmpv6_ping_request(data)
     IN /\ data' = r.data
        /\ fn_out' = << [by |-> "make_icmpv6_ping_request", panic |-> r.panic] >>
  /\ fn_in' = [fn_in EXCEPT !.before = data]
  /\ UNCHANGED << send_at, prints,
                  config, pc, error, channel, builder, stats, now, time_sent,
                  success, answer, send_calls, wait_calls, sleeps, cycles,
                  report, signalled >>

BuildNext ==
  \/ Poke
  \/ BuildV4
  \/ BuildV6

BuildSpec ==
  BuildInit /\ [][BuildNext]_vars

-----------------------------------------------------------------------------
(* Properties *)

RECURSIVE CountReceived(_)
\* the number of cycles of cs whose wait returned Received
CountReceived(cs) ==
  IF cs = << >>
    THEN 0
    ELSE (IF Head(cs).received THEN 1 ELSE 0) + CountReceived(Tail(cs))

RECURSIVE SumRtt(_)
\* the sum of the rtt of the Received cycles of cs
SumRtt(cs) ==
  IF cs = << >>
    THEN 0
    ELSE (IF Head(cs).received THEN Head(cs).rtt ELSE 0) + SumRtt(Tail(cs))

\* every cycle of cs timed out
AllTimedOut(cs) ==
  \A i \in 1..Len(cs) : ~cs[i].received

\* positions between two cycles: the last cycle is recorded, none is begun
BetweenCycles ==
  {"check", "send", "sleep", "done"}

\* C1: with a probe count N the session never calls send_ping more than N
\* times; when it has stopped (which it does only without a send or wait
\* error) it has called send_ping exactly N times and completed N cycles,
\* whatever their outcomes, and it takes no step after it has stopped.  With
\* N = 0 this is no transmission at all.
C1_ExactlyNTransmissions ==
  /\ [](packets_to_send # NoneOpt =>
          /\ send_calls <= packets_to_send[1]
          /\ (pc = "done" =>
                /\ error = NoError
                /\ send_calls = packets_to_send[1]
                /\ Len(cycles) = packets_to_send[1]))
  /\ [][pc # "done"]_vars

\* a session with N = 3 has stopped after 3 transmissions, one cycle
\* Received and two TimedOut
C1_Witness ==
  /\ pc = "done"
  /\ packets_to_send = Some(3)
  /\ send_calls = 3
  /\ CountReceived(cycles) = 1

\* C2: num_received is the number of Received cycles and total_rtt the sum of
\* their rtt, in every state; between two cycles num_sent is the number of
\* completed cycles.  A TimedOut cycle therefore adds to num_sent only.
C2_StatsMatchCycles ==
  /\ stats.num_received = CountReceived(cycles)
  /\ stats.total_rtt = SumRtt(cycles)
  /\ (pc \in BetweenCycles => stats.num_sent = Len(cycles))

\* the cycles [Received(10), TimedOut, Received(30)] give 3, 2, 40 and an
\* average of 20
C2_Witness ==
  /\ Len(cycles) = 3
  /\ cycles[1] = [received |-> TRUE, rtt |-> 10]
  /\ ~cycles[2].received
  /\ cycles[3] = [received |-> TRUE, rtt |-> 30]
  /\ pc = "sleep"
  /\ stats = [num_sent |-> 3, num_received |-> 2, total_rtt |-> 40]
  /\ avg_rtt(stats) = 20

\* C3: avg_rtt returns 0 when num_received is 0 and the integer quotient
\* total_rtt / num_received otherwise; it never divides by zero.
C3_AvgRtt ==
  (fn_in.op = "avg_rtt" /\ fn_out # << >>) =>
    /\ fn_out[1] # Undefined
    /\ fn_out[1] = IF stats.num_received = 0
                     THEN 0
                     ELSE stats.total_rtt \div stats.num_received

\* avg_rtt was called with num_received = 0 and a total_rtt that is not 0
C3_Witness ==
  /\ fn_in.op = "avg_rtt"
  /\ fn_out = << 0 >>
  /\ stats.num_received = 0
  /\ stats.total_rtt > 0

RECURSIVE SumAllWords(_, _)
\* the sum of the 16-bit big-endian words of d from word i on, a last odd
\* byte padded with a zero byte
SumAllWords(d, i) ==
  IF 2 * i + 1 > Len(d) THEN 0
  ELSE IF 2 * i + 2 > Len(d) THEN d[2 * i + 1] * 256
  ELSE d[2 * i + 1] * 256 + d[2 * i + 2] + SumAllWords(d, i + 1)

RECURSIVE EndAroundCarry(_)
\* the sum folded to 16 bits, the carries added back in
EndAroundCarry(x) ==
  IF x > 65535 THEN EndAroundCarry((x % 65536) + (x \div 65536)) ELSE x

\* the 16-bit one's-complement sum of the whole of d is zero (0xFFFF, the
\* negative zero of one's-complement arithmetic)
OnesComplementSumIsZero(d) ==
  EndAroundCarry(SumAllWords(d, 0)) = 65535

\* C4: the packet a builder leaves in the buffer has a 16-bit one's-complement
\* sum of zero over all its words, the checksum field included, whatever the
\* buffer held before.
C4_ChecksumValid ==
  (fn_in.op = "build" /\ fn_out # << >> /\ ~fn_out[1].panic) =>
    OnesComplementSumIsZero(data)

\* the v6 builder built into a 64-byte buffer that held other than zeros
C4_Witness ==
  /\ fn_in.op = "build"
  /\ fn_out = << [by |-> "make_icmpv6_ping_request", panic |-> FALSE] >>
  /\ Len(data) = PACKET_DATA_SIZE
  /\ fn_in.pokes = 2
  /\ fn_in.before[1] = 255
  /\ fn_in.before[3] = 1

\* C5: the protocol of the channel, the variant of the iterator and the
\* builder of every send all belong to the family of the destination.
C5_FamilyConsistent ==
  /\ protocol # None =>
       protocol = IF addr = "V4" THEN "Ipv4(Icmp)" ELSE "Ipv6(Icmpv6)"
  /\ packets # None => packets = addr
  /\ builder # None =>
       builder = IF addr = "V4" THEN "make_icmp_ping_request"
                                ELSE "make_icmpv6_ping_request"
  /\ (addr = "V6" /\ pc \in Running \ {"create"}) => sender_ttl = NoneOpt

\* a v6 session waits for a reply: channel, iterator and builder are the v6
\* ones
C5_Witness ==
  /\ addr = "V6"
  /\ pc = "wait"
  /\ protocol = "Ipv6(Icmpv6)"
  /\ packets = "V6"
  /\ builder = "make_icmpv6_ping_request"

\* C6: a failed send ends the session with that error: the failed send is not
\* counted in num_sent, no wait is started for it, and no send or wait follows.
C6_SendFailureFatal ==
  /\ [](error = "SendError" =>
          /\ pc = "failed"
          /\ stats.num_sent = send_calls - 1
          /\ wait_calls = send_calls - 1)
  /\ [][error = "SendError" =>
          send_calls' = send_calls /\ wait_calls' = wait_calls]_vars

\* the third send of a session failed after two completed cycles
C6_Witness ==
  /\ error = "SendError"
  /\ send_calls = 3
  /\ stats.num_sent = 2
  /\ Len(cycles) = 2

\* C7: a wait that ends with a transport fault ends the session with IoError
\* and no send follows; a wait that ends by timeout returns Ok(false) and is
\* no error.
C7_WaitFaultFatalTimeoutNormal ==
  /\ [](/\ (error = "IoError") = (answer.kind = "Err")
        /\ (answer.kind = "Err" => pc = "failed")
        /\ (answer.kind = "None" /\ pc = "record" =>
              ~success /\ error = NoError))
  /\ [][error = "IoError" => send_calls' = send_calls]_vars

\* a wait timed out and returned Ok(false); the next wait failed
C7_Witness ==
  /\ error = "IoError"
  /\ pc = "failed"
  /\ Len(cycles) = 1
  /\ ~cycles[1].received
  /\ wait_calls = 2

\* C8: when only timeouts have occurred, the loop records the cycle, sleeps,
\* checks the count and, the count not reached, goes on to send (unless the
\* process is killed); without a probe count it is never in the stopped state.
C8_TimeoutNeverStops ==
  /\ [](packets_to_send = NoneOpt => pc # "done")
  /\ [][(AllTimedOut(cycles) /\ ~signalled') =>
          /\ (pc = "record" /\ ~success => pc' = "sleep")
          /\ (pc = "sleep" /\ cycles # << >> => pc' = "check")
          /\ (pc = "check" /\ cycles # << >>
                /\ ~stop_condition(packets_to_send, stats) => pc' = "send")
       ]_vars

\* after two consecutive timeouts a session goes on to send the third probe
C8_Witness ==
  /\ pc = "send"
  /\ Len(cycles) = 2
  /\ AllTimedOut(cycles)

MinPacketSize(by) ==
  IF by = "make_icmp_ping_request"
    THEN ECHO_REQUEST_MIN_SIZE
    ELSE ICMPV6_MIN_SIZE

\* the last step was a builder called on a buffer below its minimum size
BuiltTooSmall ==
  /\ fn_in.op = "build"
  /\ fn_out # << >>
  /\ Len(fn_in.before) < MinPacketSize(fn_out[1].by)

\* C11 as stated: a builder called on a buffer below the minimum size fails
\* with an error it returns (BufferTooSmall), the buffer unchanged.
C11_ReturnsBufferTooSmall ==
  BuiltTooSmall => (~fn_out[1].panic /\ data = fn_in.before)

\* C11 amended: a builder called on a buffer below the minimum size panics
\* (expect on None) and returns nothing, the buffer unchanged; on any other
\* buffer it does not panic.
C11_PanicsBufferUnchanged ==
  (fn_in.op = "build" /\ fn_out # << >>) =>
    /\ fn_out[1].panic = BuiltTooSmall
    /\ (BuiltTooSmall => data = fn_in.before)

\* the v4 builder was called on 7 bytes that are not zeros
C11_Witness ==
  /\ BuiltTooSmall
  /\ fn_out = << [by |-> "make_icmp_ping_request", panic |-> TRUE] >>
  /\ Len(data) = 7
  /\ data[1] = 255
  /\ data = fn_in.before

\* C12 as stated: time_sent is recorded before the packet is transmitted, that
\* is no later than the call of send_ping, so that rtt covers the transmission.
C12_TimeSentBeforeTransmit ==
  pc \in {"wait", "record"} => time_sent <= send_at

\* C12 amended: a cycle builds and transmits (send_ping), then records
\* time_sent and counts the probe, then waits, then computes rtt and updates
\* the stats.  time_sent is the time at which send_ping has returned, so rtt
\* is the duration of the wait and leaves the transmission out.
C12_TimeSentAfterTransmit ==
  /\ [](/\ (pc = "stamp" =>
              send_calls = stats.num_sent + 1 /\ wait_calls = stats.num_sent)
        /\ (pc \in {"wait", "record"} => time_sent >= send_at)
        /\ (pc = "record" => now - time_sent = answer.ms))
  /\ [][~signalled' =>
          /\ (pc = "send" => pc' \in {"stamp", "failed"})
          /\ (pc = "stamp" => pc' = "wait" /\ time_sent' = now)
          /\ (pc = "wait" => pc' \in {"record", "failed"})
          /\ (pc = "record" => pc' = "sleep")
       ]_vars

\* a reply came 10 ms after a transmission that took MaxSendMs: the rtt about
\* to be computed is 10, MaxSendMs less than the time since send_ping was called
C12_Witness ==
  /\ pc = "record"
  /\ success
  /\ time_sent = send_at + MaxSendMs
  /\ now - time_sent = 10
  /\ now - send_at = 10 + MaxSendMs

\* C13 as stated: the loop sleeps after a cycle only if another cycle follows;
\* a session that has stopped has slept once less than it has recorded cycles.
C13_NoSleepBeforeStop ==
  (pc = "done" /\ cycles # << >>) => sleeps = Len(cycles) - 1

\* C13 amended: the loop sleeps 500 ms after every recorded cycle, the last
\* one too, whatever the stop condition, which is tested after the sleep; a
\* session that has stopped after N cycles has slept N times.
C13_SleepsAfterEveryCycle ==
  /\ [](/\ (pc = "sleep" => sleeps = Len(cycles) - 1)
        /\ (pc \in (Running \ {"sleep"}) \cup {"done"} => sleeps = Len(cycles))
        /\ (pc = "done" =>
              sleeps = packets_to_send[1] /\ now >= SLEEP_MS * sleeps))
  /\ [][(pc = "sleep" /\ ~signalled') =>
          /\ pc' = "check"
          /\ sleeps' = sleeps + 1
          /\ now' = now + SLEEP_MS
       ]_vars

\* a session with N = 1 has stopped after one cycle and one sleep
C13_Witness ==
  /\ pc = "done"
  /\ packets_to_send = Some(1)
  /\ Len(cycles) = 1
  /\ sleeps = 1
  /\ now >= SLEEP_MS

\* C14: one line is printed per completed cycle, a received line with the rtt
\* of the cycle exactly when its wait returned Received and a timeout line
\* otherwise; its figures (sent, lost, average rtt, loss) count the cycle it
\* is printed for.
C14_OneObservationPerCycle ==
  /\ prints = Len(cycles)
  /\ (cycles = << >> => report.kind = "none")
  /\ (cycles # << >> =>
        LET n == Len(cycles)
            got == CountReceived(cycles)
        IN /\ report.kind = IF cycles[n].received THEN "received" ELSE "timeout"
           /\ (cycles[n].received => report.rtt = cycles[n].rtt)
           /\ report.sent = n
           /\ report.lost = n - got
           /\ report.avg = IF got = 0 THEN 0 ELSE SumRtt(cycles) \div got
           /\ report.loss = 10000 - ((got * 10000) \div n))

\* the first reply came after 30 ms and is in the average the received line
\* reports
C14_Witness ==
  /\ Len(cycles) = 1
  /\ prints = 1
  /\ report = [kind |-> "received", rtt |-> 30, avg |-> 30, lost |-> 0,
               sent |-> 1, loss |-> 0]

\* C15: num_received never exceeds num_sent, so total_lost never underflows,
\* and num_sent, num_received and total_rtt never go down from one step to the
\* next.
C15_CountersMonotone ==
  /\ [](/\ stats.num_received <= stats.num_sent
        /\ total_lost(stats) # Undefined
        /\ total_lost(stats) = stats.num_sent - stats.num_received)
  /\ [][/\ stats'.num_sent >= stats.num_sent
        /\ stats'.num_received >= stats.num_received
        /\ stats'.total_rtt >= stats.total_rtt]_vars

\* a reply of 30 ms then one of 10 ms: every probe sent was answered
C15_Witness ==
  /\ Len(cycles) = 2
  /\ cycles[1].rtt = 30
  /\ cycles[2].rtt = 10
  /\ stats = [num_sent |-> 2, num_received |-> 2, total_rtt |-> 40]
  /\ total_lost(stats) = 0

\* C16: a line is printed, and the loss ratio computed, only with num_sent at
\* least 1: the ratio printed is a number between 0 and 100 percent.
C16_LossRatioDefined ==
  /\ (pc = "record" => stats.num_sent >= 1)
  /\ (report.kind # "none" =>
        /\ report.sent >= 1
        /\ report.loss # Undefined
        /\ report.loss >= 0
        /\ report.loss <= 10000)

\* the first probe timed out: the line reports 1 sent and a loss of 100 percent
C16_Witness ==
  /\ report.kind = "timeout"
  /\ report.sent = 1
  /\ report.loss = 10000
  /\ total_percent_loss(stats) = 10000

\* C17: a builder called on a buffer that holds the packet the same builder
\* built last leaves the buffer as it is.
C17_BuildIdempotent ==
  [][(/\ fn_in.op = "build"
      /\ fn_out # << >>
      /\ fn_out' # << >>
      /\ ~fn_out[1].panic
      /\ fn_out'[1].by = fn_out[1].by) => data' = data]_vars

\* the v4 builder has built again into the 64 bytes it had built into, which
\* at first held 255 in every byte
C17_Witness ==
  /\ fn_in.op = "build"
  /\ fn_out = << [by |-> "make_icmp_ping_request", panic |-> FALSE] >>
  /\ Len(data) = PACKET_DATA_SIZE
  /\ fn_in.before = data
  /\ data[1] = ICMP_ECHO_REQUEST
  /\ data[2] = 255
  /\ data[PACKET_DATA_SIZE] = 255

====
